---------------------------- MODULE Spec2Model ----------------------------
(***************************************************************************)
(* A model of the foldingathome_exporter collector (src/main.go).          *)
(*                                                                         *)
(* One scrape is one call of Exporter.Collect: it opens a connection to   *)
(* the FAHClient, issues five queries, runs five parsers over the replies  *)
(* and emits metric records on the channel ch, ending with                 *)
(* foldingathome_up.  The remote daemon and the fahapi client are the      *)
(* environment: every reply is drawn from a bounded set.                   *)
(*                                                                         *)
(* Go strings are modelled as sequences of one-character strings, so that  *)
(* strings.ToLower, strings.TrimSuffix, strings.ReplaceAll,                *)
(* time.ParseDuration, time.Parse, strconv.ParseFloat and fmt.Sprintf are  *)
(* computed character by character.  A float64 metric value is the         *)
(* rational [num, den].                                                    *)
(***************************************************************************)
EXTENDS Integers, Sequences, FiniteSets, TLC

(***************************************************************************)
(* Bounds of the model.                                                    *)
(***************************************************************************)
\* longest queue-info list the daemon returns
MaxQueue == 2

(***************************************************************************)
(* Text helpers (package strings).                                         *)
(***************************************************************************)
Digits == <<"0", "1", "2", "3", "4", "5", "6", "7", "8", "9">>

UpperCase == <<"A", "B", "C", "D", "E", "F", "G", "H", "I", "J", "K", "L", "M",
               "N", "O", "P", "Q", "R", "S", "T", "U", "V", "W", "X", "Y", "Z">>

LowerCase == <<"a", "b", "c", "d", "e", "f", "g", "h", "i", "j", "k", "l", "m",
               "n", "o", "p", "q", "r", "s", "t", "u", "v", "w", "x", "y", "z">>

IsDigit(c) == \E i \in 1..10 : Digits[i] = c

DigitVal(c) == (CHOOSE i \in 1..10 : Digits[i] = c) - 1

LowerChar(c) ==
    IF \E i \in 1..26 : UpperCase[i] = c
    THEN LowerCase[CHOOSE i \in 1..26 : UpperCase[i] = c]
    ELSE c

\* strings.ToLower
ToLower(s) == [i \in 1..Len(s) |-> LowerChar(s[i])]

HasSuffix(s, suffix) ==
    /\ Len(s) >= Len(suffix)
    /\ SubSeq(s, Len(s) - Len(suffix) + 1, Len(s)) = suffix

\* strings.TrimSuffix: at most one occurrence of the suffix is removed
TrimSuffix(s, suffix) ==
    IF HasSuffix(s, suffix) THEN SubSeq(s, 1, Len(s) - Len(suffix)) ELSE s

\* strings.ReplaceAll(s, c, ""), for a one-character c
RemoveAll(s, c) == SelectSeq(s, LAMBDA x : x # c)

Tail0(s, n) == SubSeq(s, n + 1, Len(s))

\* number of leading decimal digits of s
DigitSpan(s) ==
    IF \A i \in 1..Len(s) : IsDigit(s[i]) THEN Len(s)
    ELSE (CHOOSE i \in 1..Len(s) : ~IsDigit(s[i]) /\ \A j \in 1..(i - 1) : IsDigit(s[j])) - 1

\* the decimal value of a sequence of digits
RECURSIVE DecVal(_)
DecVal(s) ==
    IF s = <<>> THEN 0 ELSE 10 * DecVal(SubSeq(s, 1, Len(s) - 1)) + DigitVal(s[Len(s)])

RECURSIVE Pow10(_)
Pow10(n) == IF n = 0 THEN 1 ELSE 10 * Pow10(n - 1)

\* strconv.Itoa / the %d verb of fmt.Sprintf, for n >= 0
RECURSIVE Itoa(_)
Itoa(n) == IF n < 10 THEN <<Digits[n + 1]>> ELSE Itoa(n \div 10) \o <<Digits[(n % 10) + 1]>>

(***************************************************************************)
(* time.ParseDuration, at a resolution of one millisecond.                 *)
(* A duration is an optional sign and then one or more terms, each a       *)
(* decimal number (with an optional fraction) and a unit of time.unitMap   *)
(* (the two non-ASCII spellings of "us" are left out; no input uses them). *)
(* There is no unit for days.                                              *)
(***************************************************************************)
KnownUnit(u) == u \in {<<"n", "s">>, <<"u", "s">>, <<"m", "s">>, <<"s">>, <<"m">>, <<"h">>}

\* a unit is UnitNum(u) / UnitDen(u) milliseconds
UnitNum(u) ==
    CASE u = <<"h">> -> 3600000
      [] u = <<"m">> -> 60000
      [] u = <<"s">> -> 1000
      [] OTHER -> 1

UnitDen(u) ==
    CASE u = <<"n", "s">> -> 1000000
      [] u = <<"u", "s">> -> 1000
      [] OTHER -> 1

\* number of leading characters of s that are neither '.' nor a digit
UnitSpan(s) ==
    IF \A i \in 1..Len(s) : ~(s[i] = "." \/ IsDigit(s[i])) THEN Len(s)
    ELSE (CHOOSE i \in 1..Len(s) :
            /\ (s[i] = "." \/ IsDigit(s[i]))
            /\ \A j \in 1..(i - 1) : ~(s[j] = "." \/ IsDigit(s[j]))) - 1

DurationError == [ok |-> FALSE, ms |-> 0]

\* the loop "for s != \"\"" of time.ParseDuration; d is the sum so far
RECURSIVE DurationTerms(_, _)
DurationTerms(s, d) ==
    IF s = <<>> THEN [ok |-> TRUE, ms |-> d]
    ELSE IF ~(s[1] = "." \/ IsDigit(s[1])) THEN DurationError
    ELSE
      LET n      == DigitSpan(s)
          v      == DecVal(SubSeq(s, 1, n))
          s1     == Tail0(s, n)
          hasDot == s1 # <<>> /\ s1[1] = "."
          s2     == IF hasDot THEN Tail(s1) ELSE s1
          k      == IF hasDot THEN DigitSpan(s2) ELSE 0
          f      == DecVal(SubSeq(s2, 1, k))
          s3     == Tail0(s2, k)
          i      == UnitSpan(s3)
          u      == SubSeq(s3, 1, i)
      IN  IF n = 0 /\ k = 0 THEN DurationError
          ELSE IF i = 0 THEN DurationError
          ELSE IF ~KnownUnit(u) THEN DurationError
          ELSE DurationTerms(Tail0(s3, i),
                             d + ((v * UnitNum(u)) \div UnitDen(u))
                               + ((f * UnitNum(u)) \div (Pow10(k) * UnitDen(u))))

ParseDuration(s) ==
    LET signed == s # <<>> /\ s[1] \in {"-", "+"}
        neg    == s # <<>> /\ s[1] = "-"
        t      == IF signed THEN Tail(s) ELSE s
        r      == DurationTerms(t, 0)
    IN  IF t = <<"0">> THEN [ok |-> TRUE, ms |-> 0]
        ELSE IF t = <<>> THEN DurationError
        ELSE IF r.ok /\ neg THEN [ok |-> TRUE, ms |-> 0 - r.ms]
        ELSE r

(***************************************************************************)
(* time.Parse(time.RFC3339, s) followed by Time.Unix():                    *)
(*   YYYY-MM-DDTHH:MM:SS, an optional fraction, then Z or +hh:mm or -hh:mm *)
(* with the range checks of the month, day, hour, minute and second.       *)
(* The result is in seconds; it fits the model's integers for the years    *)
(* 1970 to 2037.                                                           *)
(***************************************************************************)
AllDigits(s) == \A i \in 1..Len(s) : IsDigit(s[i])

IsLeap(y) == (y % 4 = 0) /\ ((y % 100 # 0) \/ (y % 400 = 0))

DaysIn(m, y) ==
    CASE m = 2 -> IF IsLeap(y) THEN 29 ELSE 28
      [] m \in {4, 6, 9, 11} -> 30
      [] OTHER -> 31

\* days from 1970-01-01 to y-m-d in the proleptic Gregorian calendar
DaysFromCivil(y, m, d) ==
    LET yy  == IF m <= 2 THEN y - 1 ELSE y
        era == yy \div 400
        yoe == yy - era * 400
        mp  == IF m > 2 THEN m - 3 ELSE m + 9
        doy == ((153 * mp + 2) \div 5) + d - 1
        doe == yoe * 365 + (yoe \div 4) - (yoe \div 100) + doy
    IN  era * 146097 + doe - 719468

TimeError == [ok |-> FALSE, unix |-> 0]

\* the zone of an RFC3339 timestamp, as seconds east of UTC
ParseZone(z) ==
    IF z = <<"Z">> THEN [ok |-> TRUE, offset |-> 0]
    ELSE IF /\ Len(z) = 6
            /\ z[1] \in {"+", "-"}
            /\ AllDigits(SubSeq(z, 2, 3))
            /\ z[4] = ":"
            /\ AllDigits(SubSeq(z, 5, 6))
            /\ DecVal(SubSeq(z, 2, 3)) <= 24
            /\ DecVal(SubSeq(z, 5, 6)) <= 60
         THEN LET secs == DecVal(SubSeq(z, 2, 3)) * 3600 + DecVal(SubSeq(z, 5, 6)) * 60
              IN  [ok |-> TRUE, offset |-> IF z[1] = "-" THEN 0 - secs ELSE secs]
    ELSE [ok |-> FALSE, offset |-> 0]

ParseRFC3339(s) ==
    IF ~(/\ Len(s) >= 20
         /\ AllDigits(SubSeq(s, 1, 4))
         /\ s[5] = "-"
         /\ AllDigits(SubSeq(s, 6, 7))
         /\ s[8] = "-"
         /\ AllDigits(SubSeq(s, 9, 10))
         /\ s[11] = "T"
         /\ AllDigits(SubSeq(s, 12, 13))
         /\ s[14] = ":"
         /\ AllDigits(SubSeq(s, 15, 16))
         /\ s[17] = ":"
         /\ AllDigits(SubSeq(s, 18, 19)))
    THEN TimeError
    ELSE
      LET y    == DecVal(SubSeq(s, 1, 4))
          m    == DecVal(SubSeq(s, 6, 7))
          d    == DecVal(SubSeq(s, 9, 10))
          hh   == DecVal(SubSeq(s, 12, 13))
          mi   == DecVal(SubSeq(s, 15, 16))
          ss   == DecVal(SubSeq(s, 18, 19))
          rest == Tail0(s, 19)
          frac == IF rest[1] = "." THEN 1 + DigitSpan(Tail(rest)) ELSE 0
          zone == ParseZone(Tail0(rest, frac))
      IN  IF \/ m < 1 \/ m > 12
             \/ d < 1 \/ d > DaysIn(m, y)
             \/ hh > 23 \/ mi > 59 \/ ss > 59
             \/ frac = 1
             \/ ~zone.ok
          THEN TimeError
          ELSE [ok   |-> TRUE,
                unix |-> DaysFromCivil(y, m, d) * 86400 + hh * 3600 + mi * 60 + ss
                         - zone.offset]

(***************************************************************************)
(* strconv.ParseFloat(s, 64) for decimal text without an exponent:         *)
(* an optional sign, then digits with an optional fraction.                *)
(* The value is the rational num / den.  (Exponents, hexadecimal floats,   *)
(* "inf" and "nan" are not modelled; no input uses them.)                  *)
(***************************************************************************)
FloatError == [ok |-> FALSE, num |-> 0, den |-> 1]

ParseFloat(s) ==
    LET signed == s # <<>> /\ s[1] \in {"-", "+"}
        neg    == s # <<>> /\ s[1] = "-"
        t      == IF signed THEN Tail(s) ELSE s
        n      == DigitSpan(t)
        t1     == Tail0(t, n)
        hasDot == t1 # <<>> /\ t1[1] = "."
        t2     == IF hasDot THEN Tail(t1) ELSE t1
        k      == IF hasDot THEN DigitSpan(t2) ELSE 0
        mag    == DecVal(SubSeq(t, 1, n)) * Pow10(k) + DecVal(SubSeq(t2, 1, k))
    IN  IF n + k = 0 \/ Tail0(t2, k) # <<>> THEN FloatError
        ELSE [ok |-> TRUE, num |-> IF neg THEN 0 - mag ELSE mag, den |-> Pow10(k)]

(***************************************************************************)
(* The metric descriptors of NewExporter and the records sent on ch.       *)
(***************************************************************************)
NewDesc(fqName, variableLabels) == [fqName |-> fqName, variableLabels |-> variableLabels]

LabelsSlot == <<"id", "slot_description">>

LabelsWorkUnit == <<"id", "slot_description", "prcg">>

\* the Exporter built by NewExporter: one descriptor per field
Exporter ==
    [up      |-> NewDesc("foldingathome_up", <<>>),
     uptime  |-> NewDesc("foldingathome_uptime_seconds", <<>>),
     time    |-> NewDesc("foldingathome_time_seconds", <<>>),
     version |-> NewDesc("foldingathome_version", <<"version">>),
     slotStatus      |-> NewDesc("foldingathome_slot_status", LabelsSlot),
     slotAttempts    |-> NewDesc("foldingathome_slot_attempts", LabelsSlot),
     slotNextAttempt |-> NewDesc("foldingathome_slot_next_attempt_seconds", LabelsSlot),
     slotEstimatedPointsPerDay |->
         NewDesc("foldingathome_slot_estimated_points_per_day", LabelsSlot),
     workUnitStepsCompletedPercent |->
         NewDesc("foldingathome_work_unit_steps_completed_percent", LabelsWorkUnit),
     workUnitCreditEstimatePoints |->
         NewDesc("foldingathome_work_unit_credit_estimate_points", LabelsWorkUnit),
     workUnitEstimatedCompletionSeconds |->
         NewDesc("foldingathome_work_unit_estimated_completion_seconds", LabelsWorkUnit),
     workUnitTimeRemainingSeconds |->
         NewDesc("foldingathome_work_unit_time_remaining_seconds", LabelsWorkUnit)]

e == Exporter

\* Exporter.Describe: the descriptors sent on the Describe channel, in order
Describe ==
    << e.up, e.uptime, e.time, e.version, e.slotStatus, e.slotAttempts,
       e.slotNextAttempt, e.workUnitStepsCompletedPercent,
       e.workUnitCreditEstimatePoints, e.workUnitEstimatedCompletionSeconds,
       e.workUnitTimeRemainingSeconds >>

\* a float64 that is a whole number
Float(n) == [num |-> n, den |-> 1]

\* time.Duration.Seconds() of a duration held in milliseconds
Seconds(ms) == [num |-> ms, den |-> 1000]

\* prometheus.MustNewConstMetric(desc, prometheus.GaugeValue, value, labelValues...)
MustNewConstMetric(desc, value, labelValues) ==
    [desc |-> desc, value |-> value, labels |-> labelValues]

(***************************************************************************)
(* Exporter.parseUptime and Exporter.parseDate as functions of the reply.  *)
(***************************************************************************)
Backslash == <<"\\">>

\* time.ParseDuration(strings.ReplaceAll(strings.TrimSuffix(uptime, "\\"), " ", ""))
UptimeDuration(uptime) == ParseDuration(RemoveAll(TrimSuffix(uptime, Backslash), " "))

\* time.Parse(time.RFC3339, strings.TrimSuffix(date, "\\"))
DateTime(date) == ParseRFC3339(TrimSuffix(date, Backslash))

(***************************************************************************)
(* Exporter.parseInfo.  An interface{} value of the info tree is a record  *)
(* with its dynamic type t: a string (s), a list (l) or a number.  An      *)
(* index out of range and a failed type assertion panic.                   *)
(***************************************************************************)
Str(s) == [t |-> "string", s |-> s, l |-> <<>>]

List(l) == [t |-> "list", s |-> <<>>, l |-> l]

Number == [t |-> "number", s |-> <<>>, l |-> <<>>]

TextFAHClient == <<"F", "A", "H", "C", "l", "i", "e", "n", "t">>

TextVersion == <<"V", "e", "r", "s", "i", "o", "n">>

InfoOutcome(kind, version) == [kind |-> kind, version |-> version]

\* the first outcome of the sequence that is not "continue", or the fallback
FirstDecisive(outcomes, fallback) ==
    IF \A i \in 1..Len(outcomes) : outcomes[i].kind = "continue" THEN fallback
    ELSE outcomes[CHOOSE i \in 1..Len(outcomes) :
                    /\ outcomes[i].kind # "continue"
                    /\ \A j \in 1..(i - 1) : outcomes[j].kind = "continue"]

\* the body of "for _, pairs := range section[1:]"
PairOutcome(pairs) ==
    IF pairs.t # "list" THEN InfoOutcome("panic", <<>>)
    ELSE IF pairs.l = <<>> THEN InfoOutcome("panic", <<>>)
    ELSE IF pairs.l[1].t # "string" THEN InfoOutcome("panic", <<>>)
    ELSE IF pairs.l[1].s # TextVersion THEN InfoOutcome("continue", <<>>)
    ELSE IF Len(pairs.l) < 2 THEN InfoOutcome("panic", <<>>)
    ELSE IF pairs.l[2].t # "string" THEN InfoOutcome("panic", <<>>)
    ELSE InfoOutcome("found", pairs.l[2].s)

\* the body of "for _, section := range info"
SectionOutcome(section) ==
    IF section = <<>> THEN InfoOutcome("panic", <<>>)
    ELSE IF section[1].t # "string" THEN InfoOutcome("panic", <<>>)
    ELSE IF section[1].s # TextFAHClient THEN InfoOutcome("continue", <<>>)
    ELSE FirstDecisive([i \in 1..(Len(section) - 1) |-> PairOutcome(section[i + 1])],
                       InfoOutcome("continue", <<>>))

\* parseInfo: "found" with the version, "notfound" (the error), or "panic"
InfoVersion(info) ==
    FirstDecisive([i \in 1..Len(info) |-> SectionOutcome(info[i])],
                  InfoOutcome("notfound", <<>>))

(***************************************************************************)
(* Exporter.parseSlotInfo.                                                 *)
(***************************************************************************)
\* fahapi.SlotInfo
SlotInfoRec(id, status, description) ==
    [ID |-> id, Status |-> status, Description |-> description]

\* the zero value of fahapi.SlotInfo
ZeroSlotInfo == SlotInfoRec(<<>>, <<>>, <<>>)

\* statusMap[...]: a key that is not in the map reads as 0
StatusMap(status) ==
    CASE status = <<"r", "e", "a", "d", "y">> -> 1
      [] status = <<"d", "o", "w", "n", "l", "o", "a", "d">> -> 2
      [] status = <<"r", "u", "n", "n", "i", "n", "g">> -> 3
      [] status = <<"u", "p", "l", "o", "a", "d">> -> 4
      [] status = <<"f", "i", "n", "i", "s", "h", "i", "n", "g">> -> 5
      [] status = <<"s", "t", "o", "p", "p", "i", "n", "g">> -> 6
      [] status = <<"p", "a", "u", "s", "e", "d">> -> 7
      [] OTHER -> 0

\* the metrics parseSlotInfo sends, one per slot
SlotMetrics(slotInfo) ==
    [i \in 1..Len(slotInfo) |->
        MustNewConstMetric(e.slotStatus, Float(StatusMap(ToLower(slotInfo[i].Status))),
                           <<slotInfo[i].ID, slotInfo[i].Description>>)]

(***************************************************************************)
(* Exporter.parseQueueInfo.                                                *)
(***************************************************************************)
\* fahapi.SlotQueueInfo; the durations are in milliseconds
QueueInfoRec(slot, state, project, run, clone, gen, percentDone) ==
    [Slot |-> slot, State |-> state, Attempts |-> 3, NextAttempt |-> 90000,
     PPD |-> 12345, Project |-> project, Run |-> run, Clone |-> clone, Gen |-> gen,
     PercentDone |-> percentDone, CreditEstimate |-> 2500, ETA |-> 3600000,
     TimeRemaining |-> 86400000]

\* slotMap after "for _, sInfo := range slotInfo { slotMap[sInfo.ID] = sInfo }":
\* a later entry overwrites an earlier one with the same ID
SlotMap(slotInfo) ==
    [id \in {slotInfo[i].ID : i \in 1..Len(slotInfo)} |->
        slotInfo[CHOOSE i \in 1..Len(slotInfo) :
                    /\ slotInfo[i].ID = id
                    /\ \A j \in (i + 1)..Len(slotInfo) : slotInfo[j].ID # id]]

\* slotMap[key]: a key that is not in the map reads as the zero value
MapGet(slotMap, key) == IF key \in DOMAIN slotMap THEN slotMap[key] ELSE ZeroSlotInfo

\* fmt.Sprintf("%d (%d, %d, %d)", project, run, clone, gen)
Prcg(project, run, clone, gen) ==
    Itoa(project) \o <<" ", "(">> \o Itoa(run) \o <<",", " ">> \o Itoa(clone)
        \o <<",", " ">> \o Itoa(gen) \o <<")">>

Percent == <<"%">>

\* the variant of QueueEntryMetrics that compares qInfo.State without lowering it
QueueEntryMetricsRawState(slotMap, qInfo) ==
    LET id   == MapGet(slotMap, qInfo.Slot).ID
        desc == MapGet(slotMap, qInfo.Slot).Description
        prcg == Prcg(qInfo.Project, qInfo.Run, qInfo.Clone, qInfo.Gen)
        state == qInfo.State
        percentDone == ParseFloat(TrimSuffix(qInfo.PercentDone, Percent))
    IN  (IF state = <<"d", "o", "w", "n", "l", "o", "a", "d">>
         THEN << MustNewConstMetric(e.slotAttempts, Float(qInfo.Attempts), <<id, desc>>),
                 MustNewConstMetric(e.slotNextAttempt, Seconds(qInfo.NextAttempt),
                                    <<id, desc>>) >>
         ELSE <<>>)
        \o
        (IF state = <<"r", "u", "n", "n", "i", "n", "g">>
            \/ state = <<"f", "i", "n", "i", "s", "h", "i", "n", "g">>
         THEN << MustNewConstMetric(e.slotEstimatedPointsPerDay, Float(qInfo.PPD),
                                    <<id, desc>>) >>
         ELSE <<>>)
        \o
        (IF ~(qInfo.Project = 0 /\ qInfo.Run = 0 /\ qInfo.Clone = 0 /\ qInfo.Gen = 0)
         THEN (IF percentDone.ok
               THEN << MustNewConstMetric(e.workUnitStepsCompletedPercent,
                                          [num |-> percentDone.num, den |-> percentDone.den],
                                          <<id, desc, prcg>>) >>
               ELSE <<>>)
              \o
              << MustNewConstMetric(e.workUnitCreditEstimatePoints,
                                    Float(qInfo.CreditEstimate), <<id, desc, prcg>>),
                 MustNewConstMetric(e.workUnitEstimatedCompletionSeconds,
                                    Seconds(qInfo.ETA), <<id, desc, prcg>>),
                 MustNewConstMetric(e.workUnitTimeRemainingSeconds,
                                    Seconds(qInfo.TimeRemaining), <<id, desc, prcg>>) >>
         ELSE <<>>)

\* the variant of QueueEntryMetrics that sends every work-unit metric only when
\* the percentage converts
QueueEntryMetricsPercentGate(slotMap, qInfo) ==
    LET id   == MapGet(slotMap, qInfo.Slot).ID
        desc == MapGet(slotMap, qInfo.Slot).Description
        prcg == Prcg(qInfo.Project, qInfo.Run, qInfo.Clone, qInfo.Gen)
        state == ToLower(qInfo.State)
        percentDone == ParseFloat(TrimSuffix(qInfo.PercentDone, Percent))
    IN  (IF state = <<"d", "o", "w", "n", "l", "o", "a", "d">>
         THEN << MustNewConstMetric(e.slotAttempts, Float(qInfo.Attempts), <<id, desc>>),
                 MustNewConstMetric(e.slotNextAttempt, Seconds(qInfo.NextAttempt),
                                    <<id, desc>>) >>
         ELSE <<>>)
        \o
        (IF state = <<"r", "u", "n", "n", "i", "n", "g">>
            \/ state = <<"f", "i", "n", "i", "s", "h", "i", "n", "g">>
         THEN << MustNewConstMetric(e.slotEstimatedPointsPerDay, Float(qInfo.PPD),
                                    <<id, desc>>) >>
         ELSE <<>>)
        \o
        (IF ~(qInfo.Project = 0 /\ qInfo.Run = 0 /\ qInfo.Clone = 0 /\ qInfo.Gen = 0)
            /\ percentDone.ok
         THEN << MustNewConstMetric(e.workUnitStepsCompletedPercent,
                                    [num |-> percentDone.num, den |-> percentDone.den],
                                    <<id, desc, prcg>>),
                 MustNewConstMetric(e.workUnitCreditEstimatePoints,
                                    Float(qInfo.CreditEstimate), <<id, desc, prcg>>),
                 MustNewConstMetric(e.workUnitEstimatedCompletionSeconds,
                                    Seconds(qInfo.ETA), <<id, desc, prcg>>),
                 MustNewConstMetric(e.workUnitTimeRemainingSeconds,
                                    Seconds(qInfo.TimeRemaining), <<id, desc, prcg>>) >>
         ELSE <<>>)

\* the metrics one iteration of "for _, qInfo := range queueInfo" sends, in order
QueueEntryMetrics(slotMap, qInfo) ==
    LET id   == MapGet(slotMap, qInfo.Slot).ID
        desc == MapGet(slotMap, qInfo.Slot).Description
        prcg == Prcg(qInfo.Project, qInfo.Run, qInfo.Clone, qInfo.Gen)
        state == ToLower(qInfo.State)
        percentDone == ParseFloat(TrimSuffix(qInfo.PercentDone, Percent))
    IN  (IF state = <<"d", "o", "w", "n", "l", "o", "a", "d">>
         THEN << MustNewConstMetric(e.slotAttempts, Float(qInfo.Attempts), <<id, desc>>),
                 MustNewConstMetric(e.slotNextAttempt, Seconds(qInfo.NextAttempt),
                                    <<id, desc>>) >>
         ELSE <<>>)
        \o
        (IF state = <<"r", "u", "n", "n", "i", "n", "g">>
            \/ state = <<"f", "i", "n", "i", "s", "h", "i", "n", "g">>
         THEN << MustNewConstMetric(e.slotEstimatedPointsPerDay, Float(qInfo.PPD),
                                    <<id, desc>>) >>
         ELSE <<>>)
        \o
        (IF ~(qInfo.Project = 0 /\ qInfo.Run = 0 /\ qInfo.Clone = 0 /\ qInfo.Gen = 0)
         THEN (IF percentDone.ok
               THEN << MustNewConstMetric(e.workUnitStepsCompletedPercent,
                                          [num |-> percentDone.num, den |-> percentDone.den],
                                          <<id, desc, prcg>>) >>
               ELSE <<>>)
              \o
              << MustNewConstMetric(e.workUnitCreditEstimatePoints,
                                    Float(qInfo.CreditEstimate), <<id, desc, prcg>>),
                 MustNewConstMetric(e.workUnitEstimatedCompletionSeconds,
                                    Seconds(qInfo.ETA), <<id, desc, prcg>>),
                 MustNewConstMetric(e.workUnitTimeRemainingSeconds,
                                    Seconds(qInfo.TimeRemaining), <<id, desc, prcg>>) >>
         ELSE <<>>)

(***************************************************************************)
(* The replies of the FAHClient.  A daemon of kind "any" may refuse the    *)
(* connection, fail any query and send malformed replies; a daemon of kind *)
(* "folding" answers every query and has a varied work queue.              *)
(***************************************************************************)
TextUptime == <<"1", "4", "h", " ", "3", "1", "m", " ", " ", "2", "s", "\\">>

TextUptimeDays == <<"1", "d", " ", "2", "h", "\\">>

TextGarbage == <<"g", "a", "r", "b", "a", "g", "e">>

TextDate == <<"2", "0", "2", "0", "-", "0", "5", "-", "0", "9", "T",
              "2", "0", ":", "0", "4", ":", "4", "8", "Z", "\\">>

TextRelease == <<"7", ".", "6", ".", "9">>

InfoGood ==
    << << Str(<<"B", "u", "i", "l", "d">>), List(<<Str(TextVersion), Str(<<"x">>)>>) >>,
       << Str(TextFAHClient),
          List(<<Str(<<"W", "e", "b", "s", "i", "t", "e">>), Str(<<"f", "a", "h">>)>>),
          List(<<Str(TextVersion), Str(TextRelease)>>) >> >>

InfoNoVersion ==
    << << Str(TextFAHClient),
          List(<<Str(<<"W", "e", "b", "s", "i", "t", "e">>), Str(<<"f", "a", "h">>)>>) >> >>

InfoEmptySection == << <<>> >>

InfoHeadNotString == << << Number, List(<<Str(TextVersion), Str(TextRelease)>>) >> >>

InfoPairNotList == << << Str(TextFAHClient), Str(TextVersion) >> >>

InfoPairShort == << << Str(TextFAHClient), List(<<Str(TextVersion)>>) >> >>

SlotA == SlotInfoRec(<<"0", "0">>, <<"R", "U", "N", "N", "I", "N", "G">>, <<"c", "p", "u">>)

SlotB == SlotInfoRec(<<"0", "1">>, <<"P", "a", "u", "s", "e", "d">>, <<"g", "p", "u">>)

\* a second record with the ID of SlotA
SlotA2 == SlotInfoRec(<<"0", "0">>, <<"n", "o", "n", "e">>, <<"d", "u", "p">>)

TextPercent == <<"5", "0", ".", "2", "5", "%">>

QueueStates ==
    { <<"D", "O", "W", "N", "L", "O", "A", "D">>,
      <<"R", "U", "N", "N", "I", "N", "G">>,
      <<"F", "i", "n", "i", "s", "h", "i", "n", "g">>,
      <<"R", "E", "A", "D", "Y">> }

\* slot "09" matches no slot record
QueueSlots == { <<"0", "0">>, <<"0", "9">> }

QueueEntries(daemon) ==
    IF daemon = "folding"
    THEN { QueueInfoRec(slot, state, 0, 0, 0, 0, <<"0", ".", "0", "0", "%">>) :
               slot \in QueueSlots, state \in QueueStates }
         \cup { QueueInfoRec(slot, state, 9999, 1, 2, 3, TextPercent) :
               slot \in QueueSlots, state \in QueueStates }
         \cup { QueueInfoRec(slot, state, 0, 0, 0, 5, TextGarbage) :
               slot \in QueueSlots, state \in QueueStates }
    ELSE { QueueInfoRec(<<"0", "0">>, <<"D", "O", "W", "N", "L", "O", "A", "D">>,
                        0, 0, 0, 0, <<"0", ".", "0", "0", "%">>),
           QueueInfoRec(<<"0", "0">>, <<"R", "U", "N", "N", "I", "N", "G">>,
                        9999, 1, 2, 3, TextPercent),
           QueueInfoRec(<<"0", "9">>, <<"F", "i", "n", "i", "s", "h", "i", "n", "g">>,
                        0, 0, 0, 5, TextGarbage) }

SeqsUpTo(S, n) == UNION { [1..k -> S] : k \in 0..n }

\* a reply is the pair Go returns: the value, and whether err is non-nil;
\* with an error the value is the zero value of its type
Reply(value, failed) == [value |-> value, err |-> failed]

OpenOutcomes == {TRUE, FALSE}

UptimeReplies(daemon) ==
    IF daemon = "folding" THEN { Reply(TextUptime, FALSE) }
    ELSE { Reply(<<>>, TRUE), Reply(TextUptime, FALSE), Reply(TextUptimeDays, FALSE),
           Reply(TextGarbage, FALSE) }

DateReplies(daemon) ==
    IF daemon = "folding" THEN { Reply(TextDate, FALSE) }
    ELSE { Reply(<<>>, TRUE), Reply(TextDate, FALSE), Reply(TextGarbage, FALSE) }

InfoReplies(daemon) ==
    IF daemon = "folding" THEN { Reply(InfoGood, FALSE) }
    ELSE { Reply(<<>>, TRUE) }
         \cup { Reply(i, FALSE) : i \in { InfoGood, InfoNoVersion, InfoEmptySection,
                                          InfoHeadNotString, InfoPairNotList,
                                          InfoPairShort } }

SlotInfoReplies(daemon) ==
    IF daemon = "folding"
    THEN { Reply(s, FALSE) : s \in { <<SlotA>>, <<SlotA, SlotB>>, <<SlotA, SlotA2>> } }
    ELSE { Reply(<<>>, TRUE) }
         \cup { Reply(s, FALSE) : s \in { <<>>, <<SlotA>>, <<SlotA, SlotB>> } }

QueueInfoReplies(daemon) ==
    { Reply(q, FALSE) : q \in SeqsUpTo(QueueEntries(daemon), MaxQueue) }
        \cup (IF daemon = "folding" THEN {} ELSE { Reply(<<>>, TRUE) })

(***************************************************************************)
(* The state of one Exporter and of the Collect call in progress.          *)
(***************************************************************************)
VARIABLES
    daemon,     \* the kind of FAHClient at e.address: "any" or "folding"
    pc,         \* the position of Collect
    api,        \* the connection: "none", "open" or "closed"
    closes,     \* how often api.Close() ran in this call of Collect
    up,         \* the local up
    uptime,     \* the local uptime
    date,       \* the local date
    info,       \* the local info
    slotInfo,   \* the local slotInfo
    queueInfo,  \* the local queueInfo
    qi,         \* the index of parseQueueInfo's loop over queueInfo
    ch,         \* the metrics sent on ch by this call of Collect, in order
    calls,      \* the queries issued on api by this call of Collect, in order
    errs        \* the calls of this Collect that returned a non-nil err

vars == << daemon, pc, api, closes, up, uptime, date, info, slotInfo, queueInfo,
           qi, ch, calls, errs >>

locals == << uptime, date, info, slotInfo, queueInfo, qi >>

\* no Collect has run yet
Idle(d) ==
    /\ daemon = d
    /\ pc = "idle"
    /\ api = "none"
    /\ closes = 0
    /\ up = 0
    /\ uptime = <<>>
    /\ date = <<>>
    /\ info = <<>>
    /\ slotInfo = <<>>
    /\ queueInfo = <<>>
    /\ qi = 1
    /\ ch = <<>>
    /\ calls = <<>>
    /\ errs = {}

Init == Idle("any")

InitFolding == Idle("folding")

\* the variant of NewAPI that goes on to the queries after a failed open
NewAPINoReturn ==
    /\ pc \in {"idle", "done"}
    /\ \E ok \in OpenOutcomes :
         /\ api' = IF ok THEN "open" ELSE "none"
         /\ ch' = IF ok THEN <<>> ELSE << MustNewConstMetric(e.up, Float(0), <<>>) >>
         /\ errs' = IF ok THEN {} ELSE {"NewAPI"}
         /\ up' = IF ok THEN 1 ELSE 0
         /\ pc' = "exec_uptime"
    /\ closes' = 0
    /\ uptime' = <<>>
    /\ date' = <<>>
    /\ info' = <<>>
    /\ slotInfo' = <<>>
    /\ queueInfo' = <<>>
    /\ qi' = 1
    /\ calls' = <<>>
    /\ UNCHANGED daemon

\* Collect is called (a scrape): fahapi.NewAPI(e.address); on an error up = 0 is
\* sent and Collect returns; otherwise api.Close() is deferred and up := 1
NewAPI ==
    /\ pc \in {"idle", "done"}
    /\ \E ok \in OpenOutcomes :
         /\ api' = IF ok THEN "open" ELSE "none"
         /\ ch' = IF ok THEN <<>> ELSE << MustNewConstMetric(e.up, Float(0), <<>>) >>
         /\ errs' = IF ok THEN {} ELSE {"NewAPI"}
         /\ up' = IF ok THEN 1 ELSE 0
         /\ pc' = IF ok THEN "exec_uptime" ELSE "done"
    /\ closes' = 0
    /\ uptime' = <<>>
    /\ date' = <<>>
    /\ info' = <<>>
    /\ slotInfo' = <<>>
    /\ queueInfo' = <<>>
    /\ qi' = 1
    /\ calls' = <<>>
    /\ UNCHANGED daemon

\* uptime, err := api.Exec("eval \"$(uptime)\\n\"")
ExecUptime ==
    /\ pc = "exec_uptime"
    /\ \E r \in UptimeReplies(daemon) :
         /\ uptime' = r.value
         /\ up' = IF r.err THEN 0 ELSE up
         /\ errs' = IF r.err THEN errs \cup {"uptime"} ELSE errs
    /\ calls' = Append(calls, "uptime")
    /\ pc' = "exec_date"
    /\ UNCHANGED << daemon, api, closes, date, info, slotInfo, queueInfo, qi, ch >>

\* date, err := api.Exec("eval \"$(date)\\n\"")
ExecDate ==
    /\ pc = "exec_date"
    /\ \E r \in DateReplies(daemon) :
         /\ date' = r.value
         /\ up' = IF r.err THEN 0 ELSE up
         /\ errs' = IF r.err THEN errs \cup {"date"} ELSE errs
    /\ calls' = Append(calls, "date")
    /\ pc' = "info"
    /\ UNCHANGED << daemon, api, closes, uptime, info, slotInfo, queueInfo, qi, ch >>

\* info, err := api.Info()
Info ==
    /\ pc = "info"
    /\ \E r \in InfoReplies(daemon) :
         /\ info' = r.value
         /\ up' = IF r.err THEN 0 ELSE up
         /\ errs' = IF r.err THEN errs \cup {"info"} ELSE errs
    /\ calls' = Append(calls, "info")
    /\ pc' = "slot_info"
    /\ UNCHANGED << daemon, api, closes, uptime, date, slotInfo, queueInfo, qi, ch >>

\* slotInfo, err := api.SlotInfo()
SlotInfo ==
    /\ pc = "slot_info"
    /\ \E r \in SlotInfoReplies(daemon) :
         /\ slotInfo' = r.value
         /\ up' = IF r.err THEN 0 ELSE up
         /\ errs' = IF r.err THEN errs \cup {"slot-info"} ELSE errs
    /\ calls' = Append(calls, "slot-info")
    /\ pc' = "queue_info"
    /\ UNCHANGED << daemon, api, closes, uptime, date, info, queueInfo, qi, ch >>

\* queueInfo, err := api.QueueInfo()
QueueInfo ==
    /\ pc = "queue_info"
    /\ \E r \in QueueInfoReplies(daemon) :
         /\ queueInfo' = r.value
         /\ up' = IF r.err THEN 0 ELSE up
         /\ errs' = IF r.err THEN errs \cup {"queue-info"} ELSE errs
    /\ calls' = Append(calls, "queue-info")
    /\ pc' = "parse_uptime"
    /\ UNCHANGED << daemon, api, closes, uptime, date, info, slotInfo, qi, ch >>

\* if err := e.parseUptime(ch, uptime); err != nil { up = 0 }
ParseUptime ==
    /\ pc = "parse_uptime"
    /\ LET d == UptimeDuration(uptime)
       IN  /\ ch' = IF d.ok
                    THEN Append(ch, MustNewConstMetric(e.uptime, Seconds(d.ms), <<>>))
                    ELSE ch
           /\ up' = IF d.ok THEN up ELSE 0
    /\ pc' = "parse_date"
    /\ UNCHANGED << daemon, api, closes, locals, calls, errs >>

\* the variant of ParseDate that leaves up as it is when the date does not parse
ParseDateKeepsUp ==
    /\ pc = "parse_date"
    /\ LET t == DateTime(date)
       IN  /\ ch' = IF t.ok
                    THEN Append(ch, MustNewConstMetric(e.time, Float(t.unix), <<>>))
                    ELSE ch
           /\ up' = up
    /\ pc' = "parse_info"
    /\ UNCHANGED << daemon, api, closes, locals, calls, errs >>

\* if err := e.parseDate(ch, date); err != nil { up = 0 }
ParseDate ==
    /\ pc = "parse_date"
    /\ LET t == DateTime(date)
       IN  /\ ch' = IF t.ok
                    THEN Append(ch, MustNewConstMetric(e.time, Float(t.unix), <<>>))
                    ELSE ch
           /\ up' = IF t.ok THEN up ELSE 0
    /\ pc' = "parse_info"
    /\ UNCHANGED << daemon, api, closes, locals, calls, errs >>

\* if err := e.parseInfo(ch, info); err != nil { up = 0 }
\* a panic inside parseInfo starts to unwind Collect
ParseInfo ==
    /\ pc = "parse_info"
    /\ LET r == InfoVersion(info)
       IN  /\ ch' = IF r.kind = "found"
                    THEN Append(ch, MustNewConstMetric(e.version, Float(1), <<r.version>>))
                    ELSE ch
           /\ up' = IF r.kind = "notfound" THEN 0 ELSE up
           /\ pc' = IF r.kind = "panic" THEN "panicking" ELSE "parse_slot_info"
    /\ UNCHANGED << daemon, api, closes, locals, calls, errs >>

\* if err := e.parseSlotInfo(ch, slotInfo); err != nil { up = 0 }
\* and the start of parseQueueInfo, which builds slotMap
ParseSlotInfo ==
    /\ pc = "parse_slot_info"
    /\ ch' = ch \o SlotMetrics(slotInfo)
    /\ qi' = 1
    /\ pc' = "parse_queue_info"
    /\ UNCHANGED << daemon, api, closes, up, uptime, date, info, slotInfo, queueInfo,
                    calls, errs >>

\* one iteration of "for _, qInfo := range queueInfo" in parseQueueInfo
ParseQueueEntry ==
    /\ pc = "parse_queue_info"
    /\ qi <= Len(queueInfo)
    /\ ch' = ch \o QueueEntryMetrics(SlotMap(slotInfo), queueInfo[qi])
    /\ qi' = qi + 1
    /\ UNCHANGED << daemon, pc, api, closes, up, uptime, date, info, slotInfo,
                    queueInfo, calls, errs >>

\* parseQueueInfo returns nil; ch <- MustNewConstMetric(e.up, GaugeValue, up)
SendUp ==
    /\ pc = "parse_queue_info"
    /\ qi > Len(queueInfo)
    /\ ch' = Append(ch, MustNewConstMetric(e.up, Float(up), <<>>))
    /\ pc' = "return"
    /\ UNCHANGED << daemon, api, closes, up, locals, calls, errs >>

\* the variant of Close that is a plain call at the end of Collect and not a
\* deferred one: a panic leaves Collect without it
CloseNotDeferred ==
    /\ pc \in {"return", "panicking"}
    /\ api' = IF pc = "return" THEN "closed" ELSE api
    /\ closes' = IF pc = "return" THEN closes + 1 ELSE closes
    /\ pc' = IF pc = "return" THEN "done" ELSE "crashed"
    /\ UNCHANGED << daemon, up, locals, ch, calls, errs >>

\* defer api.Close(): runs when Collect returns and when a panic unwinds it;
\* a panic that leaves Collect is not recovered and ends the process
Close ==
    /\ pc \in {"return", "panicking"}
    /\ api' = "closed"
    /\ closes' = closes + 1
    /\ pc' = IF pc = "return" THEN "done" ELSE "crashed"
    /\ UNCHANGED << daemon, up, locals, ch, calls, errs >>

Next ==
    \/ NewAPI
    \/ ExecUptime
    \/ ExecDate
    \/ Info
    \/ SlotInfo
    \/ QueueInfo
    \/ ParseUptime
    \/ ParseDate
    \/ ParseInfo
    \/ ParseSlotInfo
    \/ ParseQueueEntry
    \/ SendUp
    \/ Close

\* scrapes of a FAHClient that may fail in any way
Spec == Init /\ [][Next]_vars

\* scrapes of a FAHClient that is folding
SpecFolding == InitFolding /\ [][Next]_vars

(***************************************************************************)
(* Vocabulary of the properties.                                           *)
(***************************************************************************)
\* the Collect call has ended: it returned, or a panic left it
PollEnded == pc \in {"done", "crashed"}

\* the positions in ch of the foldingathome_up metric
UpIndexes == { i \in 1..Len(ch) : ch[i].desc = e.up }

Sent == { ch[i] : i \in 1..Len(ch) }

SentNames == { ch[i].desc.fqName : i \in 1..Len(ch) }

FiveQueries == << "uptime", "date", "info", "slot-info", "queue-info" >>

\* the connection opened, every query returned without error, and the uptime,
\* the date and the version were parsed
AllSucceeded ==
    /\ errs = {}
    /\ UptimeDuration(uptime).ok
    /\ DateTime(date).ok
    /\ InfoVersion(info).kind = "found"

QuadrupleNonZero(q) == q.Project # 0 \/ q.Run # 0 \/ q.Clone # 0 \/ q.Gen # 0

TextDownload == <<"d", "o", "w", "n", "l", "o", "a", "d">>

TextRunning == <<"r", "u", "n", "n", "i", "n", "g">>

TextFinishing == <<"f", "i", "n", "i", "s", "h", "i", "n", "g">>

WorkUnitAlways ==
    { "foldingathome_work_unit_credit_estimate_points",
      "foldingathome_work_unit_estimated_completion_seconds",
      "foldingathome_work_unit_time_remaining_seconds" }

\* C1: whenever foldingathome_up is on ch, its value is 1 if and only if the
\* open, all five queries and the three failing parsers succeeded, and 0
\* otherwise; a Collect that returned has sent it.
C1_UpIffAllSucceeded ==
    /\ \A i \in UpIndexes : ch[i].value = Float(IF AllSucceeded THEN 1 ELSE 0)
    /\ (pc = "done" => UpIndexes # {})

\* C1 witness: every query succeeded, only the date did not parse, and up = 0 was sent
C1_Witness ==
    /\ pc = "done"
    /\ errs = {}
    /\ UptimeDuration(uptime).ok
    /\ ~DateTime(date).ok
    /\ InfoVersion(info).kind = "found"
    /\ ch[Len(ch)] = MustNewConstMetric(e.up, Float(0), <<>>)

\* C2: Collect never panics: no reply content makes a parser panic, so Collect
\* is never unwinding and the process never ends by a panic.
C2_CollectNeverPanics == pc \notin {"panicking", "crashed"}

\* C3: after a failed open, Collect has ended having sent exactly one metric,
\* foldingathome_up = 0, having issued no query and holding no connection.
C3_OpenFailureStops ==
    "NewAPI" \in errs =>
        /\ pc = "done"
        /\ ch = << MustNewConstMetric(e.up, Float(0), <<>>) >>
        /\ calls = <<>>
        /\ api = "none"

\* C3 witness: a Collect whose open failed has ended
C3_Witness == "NewAPI" \in errs /\ pc = "done" /\ Len(ch) = 1

\* the metrics of every iteration of parseQueueInfo's loop
QueueMetricsSent ==
    UNION { { QueueEntryMetrics(SlotMap(slotInfo), queueInfo[i])[k] :
                k \in 1..Len(QueueEntryMetrics(SlotMap(slotInfo), queueInfo[i])) } :
            i \in 1..Len(queueInfo) }

\* C4: the queries are issued once each in the fixed order, whatever failed
\* before; and when a Collect that opened has ended, every parser whose own
\* query succeeded has sent its metrics.
C4_FailSoftFanOut ==
    /\ Len(calls) <= 5
    /\ calls = SubSeq(FiveQueries, 1, Len(calls))
    /\ (PollEnded /\ "NewAPI" \notin errs) =>
         /\ calls = FiveQueries
         /\ ("uptime" \notin errs /\ UptimeDuration(uptime).ok) =>
               MustNewConstMetric(e.uptime, Seconds(UptimeDuration(uptime).ms), <<>>) \in Sent
         /\ ("date" \notin errs /\ DateTime(date).ok) =>
               MustNewConstMetric(e.time, Float(DateTime(date).unix), <<>>) \in Sent
         /\ ("info" \notin errs /\ InfoVersion(info).kind = "found") =>
               MustNewConstMetric(e.version, Float(1), <<InfoVersion(info).version>>) \in Sent
         /\ ("slot-info" \notin errs) =>
               \A i \in 1..Len(slotInfo) : SlotMetrics(slotInfo)[i] \in Sent
         /\ ("queue-info" \notin errs) => QueueMetricsSent \subseteq Sent

\* C5: foldingathome_up is never followed by another metric, and a Collect
\* that has ended has sent it exactly once.
C5_UpOnceAndLast ==
    /\ UpIndexes \subseteq {Len(ch)}
    /\ PollEnded => Cardinality(UpIndexes) = 1

\* C6: the connection is closed at most once; a query is only issued on an open
\* connection; once Collect has ended no connection is open, and one that was
\* opened has been closed exactly once, also when a panic ended Collect.
C6_ConnectionScoped ==
    /\ closes <= 1
    /\ (api = "closed") <=> (closes = 1)
    /\ pc \in {"exec_uptime", "exec_date", "info", "slot_info", "queue_info"} => api = "open"
    /\ api = "closed" => PollEnded
    /\ pc \in {"idle", "done", "crashed"} => api # "open"
    /\ (PollEnded /\ "NewAPI" \notin errs) => (api = "closed" /\ closes = 1)
    /\ (PollEnded /\ "NewAPI" \in errs) => (api = "none" /\ closes = 0)

\* C6 witness: a panic inside a parser ended Collect and the connection is closed
C6_Witness == pc = "crashed" /\ api = "closed" /\ closes = 1 /\ calls = FiveQueries

\* the step of parseQueueInfo's loop for the entry queueInfo[qi]
AtQueueEntry == pc = "parse_queue_info" /\ qi <= Len(queueInfo)

\* C7: in every iteration of the joiner, attempts and next-attempt are sent iff
\* the lower-cased state is "download", points-per-day iff it is "running" or
\* "finishing", the three unconditional work-unit metrics iff the quadruple is
\* not all-zero, and the percentage only then; an entry whose slot id matches
\* no slot gets empty id and description labels, and nothing is an error.
C7_JoinerGating ==
    [][ AtQueueEntry =>
          LET q     == queueInfo[qi]
              state == ToLower(q.State)
              new   == SubSeq(ch', Len(ch) + 1, Len(ch'))
              names == { new[i].desc.fqName : i \in 1..Len(new) }
          IN  /\ "foldingathome_slot_attempts" \in names <=> state = TextDownload
              /\ "foldingathome_slot_next_attempt_seconds" \in names <=> state = TextDownload
              /\ "foldingathome_slot_estimated_points_per_day" \in names
                     <=> state \in {TextRunning, TextFinishing}
              /\ \A n \in WorkUnitAlways : n \in names <=> QuadrupleNonZero(q)
              /\ "foldingathome_work_unit_steps_completed_percent" \in names
                     => QuadrupleNonZero(q)
              /\ (\A i \in 1..Len(slotInfo) : slotInfo[i].ID # q.Slot) =>
                     \A i \in 1..Len(new) : new[i].labels[1] = <<>> /\ new[i].labels[2] = <<>>
              /\ up' = up
              /\ pc' = "parse_queue_info"
      ]_vars

\* C7 witness: a Collect has ended whose only queue entry is running, has the
\* quadruple (9999, 1, 2, 3) and names a slot that does not exist; points-per-day
\* and the work-unit metrics were sent with empty labels, attempts was not
C7_Witness ==
    /\ pc = "done"
    /\ queueInfo = << QueueInfoRec(<<"0", "9">>, <<"R", "U", "N", "N", "I", "N", "G">>,
                                   9999, 1, 2, 3, TextPercent) >>
    /\ MustNewConstMetric(e.slotEstimatedPointsPerDay, Float(12345), << <<>>, <<>> >>) \in Sent
    /\ WorkUnitAlways \subseteq SentNames
    /\ "foldingathome_work_unit_steps_completed_percent" \in SentNames
    /\ "foldingathome_slot_attempts" \notin SentNames

\* the percentage text of q does not convert
PercentFails(q) == ~ParseFloat(TrimSuffix(q.PercentDone, Percent)).ok

\* C8: in an iteration for an entry with a quadruple that is not all-zero and a
\* percentage that does not convert, the percentage metric is not sent, the
\* other three work-unit metrics are, up keeps its value and the loop goes on
\* to the next entry.
C8_PercentAsymmetry ==
    [][ (AtQueueEntry /\ QuadrupleNonZero(queueInfo[qi]) /\ PercentFails(queueInfo[qi])) =>
          LET new   == SubSeq(ch', Len(ch) + 1, Len(ch'))
              names == { new[i].desc.fqName : i \in 1..Len(new) }
          IN  /\ "foldingathome_work_unit_steps_completed_percent" \notin names
              /\ WorkUnitAlways \subseteq names
              /\ up' = up
              /\ pc' = "parse_queue_info"
              /\ qi' = qi + 1
      ]_vars

\* C8 witness: a Collect has ended with up = 1 whose first queue entry has a
\* percentage that does not convert and whose second entry was still processed
C8_Witness ==
    /\ pc = "done"
    /\ Len(queueInfo) = 2
    /\ QuadrupleNonZero(queueInfo[1]) /\ PercentFails(queueInfo[1])
    /\ queueInfo[2].Project = 9999
    /\ ch[Len(ch)] = MustNewConstMetric(e.up, Float(1), <<>>)
    /\ \E i \in 1..Len(ch) :
          /\ ch[i].desc = e.workUnitCreditEstimatePoints
          /\ ch[i].labels[3] = Prcg(0, 0, 0, 5)
    /\ \A i \in 1..Len(ch) :
          ch[i].desc = e.workUnitStepsCompletedPercent => ch[i].labels[3] = Prcg(9999, 1, 2, 3)
    /\ \E i \in 1..Len(ch) : ch[i].desc = e.workUnitStepsCompletedPercent

\* C9: every metric on ch has a descriptor that Describe announces.
C9_DescribedOnly ==
    \A i \in 1..Len(ch) : \E j \in 1..Len(Describe) : Describe[j] = ch[i].desc

\* the slot records of this Collect have pairwise different IDs
SlotIDsUnique ==
    \A i, j \in 1..Len(slotInfo) : slotInfo[i].ID = slotInfo[j].ID => i = j

\* C10: when the slot ids are unique, no two metrics on ch have the same name
\* and the same label values.
C10_SeriesUnique ==
    SlotIDsUnique =>
        \A i, j \in 1..Len(ch) :
            (ch[i].desc.fqName = ch[j].desc.fqName /\ ch[i].labels = ch[j].labels) => i = j

=============================================================================
